---------------------------- MODULE Spec2Model ----------------------------
(***************************************************************************)
(* rframe: the indexing facade (src/rframe/rframe.py) and the REST query   *)
(* compiler (src/rframe/interfaces/rest.py).                               *)
(*                                                                         *)
(* Python values are tagged records (field t).  A dict keeps its insertion *)
(* order, as in Python: it is a sequence of key/value entries.  A raised   *)
(* exception is the value Raise(exc, msg) that the caller receives in      *)
(* place of a result.                                                      *)
(***************************************************************************)
EXTENDS Integers, Sequences, FiniteSets, TLC

VARIABLES
    db,           \* the documents the backend has persisted, in insertion order
    clientCalls,  \* how many times BaseRestClient.query has been called
    op            \* the call being returned to the caller: inputs, effects, result

vars == <<db, clientCalls, op>>

-----------------------------------------------------------------------------
(* Bounds *)

MaxLen == 2      \* children of a composite index; elements of a list of intervals
MaxCalls == 2    \* client query calls counted
MaxDocs == 1     \* documents persisted
MaxBatch == 3    \* records in one concat batch
MaxKey == 4      \* elements of a subscript tuple given to loc

-----------------------------------------------------------------------------
(* Python values *)

IntV(n) == [t |-> "int", v |-> n]
Str(s) == [t |-> "str", s |-> s]
None == [t |-> "None"]
Tup(items) == [t |-> "tuple", items |-> items]
Lst(items) == [t |-> "list", items |-> items]
Dict(kv) == [t |-> "dict", kv |-> kv]
Slice(start, stop) == [t |-> "slice", start |-> start, stop |-> stop]
Interval(left, right) == [t |-> "obj", left |-> left, right |-> right]
Raise(exc, msg) == [t |-> "raise", exc |-> exc, msg |-> msg]

IsRaise(v) == v.t = "raise"

Entry(k, v) == [k |-> k, v |-> v]
EmptyDict == Dict(<<>>)
Keys(d) == {d.kv[i].k : i \in 1..Len(d.kv)}
HasKey(d, k) == k \in Keys(d)
Get(d, k) == d.kv[CHOOSE i \in 1..Len(d.kv) : d.kv[i].k = k].v
\* d[k] = v: an existing key keeps its position, a new key goes last
DictSet(d, k, v) ==
    IF HasKey(d, k)
    THEN Dict([i \in 1..Len(d.kv) |-> IF d.kv[i].k = k THEN Entry(k, v) ELSE d.kv[i]])
    ELSE Dict(Append(d.kv, Entry(k, v)))
\* d.values(): the values in insertion order
Values(d) == [i \in 1..Len(d.kv) |-> d.kv[i].v]

SeqsUpTo(S, n) == UNION {[1..k -> S] : k \in 0..n}

-----------------------------------------------------------------------------
(* interfaces/rest.py: serializable_interval *)

RECURSIVE serializable_interval(_)
RECURSIVE serializable_intervals(_, _, _)

IntervalDict(left, right) == Dict(<<Entry("left", left), Entry("right", right)>>)

\* the dict branch missing: a mapping falls through to the scalar case
RECURSIVE serializable_interval_nodict(_)
serializable_interval_nodict(interval) ==
    IF interval.t = "list"
    THEN serializable_intervals(interval.items, 1, <<>>)
    ELSE IF interval.t = "tuple"
    THEN IF Len(interval.items) = 2
         THEN IntervalDict(interval.items[1], interval.items[2])
         ELSE Raise("ValueError", "unpack")
    ELSE IF interval.t = "slice"
    THEN IntervalDict(interval.start, interval.stop)
    ELSE IF interval.t = "obj"
    THEN IntervalDict(interval.left, interval.right)
    ELSE IntervalDict(interval, interval)

serializable_interval(interval) ==
    IF interval.t = "list"
    THEN serializable_intervals(interval.items, 1, <<>>)
    ELSE IF interval.t = "tuple"
    THEN IF Len(interval.items) = 2
         THEN IntervalDict(interval.items[1], interval.items[2])
         ELSE Raise("ValueError", "unpack")
    ELSE IF interval.t = "dict"
    THEN IF HasKey(interval, "left") /\ HasKey(interval, "right")
         THEN IntervalDict(Get(interval, "left"), Get(interval, "right"))
         ELSE Raise("KeyError", "left/right")
    ELSE IF interval.t = "slice"
    THEN IntervalDict(interval.start, interval.stop)
    ELSE IF interval.t = "obj"
    THEN IntervalDict(interval.left, interval.right)
    ELSE IntervalDict(interval, interval)

\* [serializable_interval(iv) for iv in interval]: the first raise ends it
serializable_intervals(items, i, acc) ==
    IF i > Len(items)
    THEN Lst(acc)
    ELSE LET r == serializable_interval(items[i])
         IN IF IsRaise(r) THEN r ELSE serializable_intervals(items, i + 1, Append(acc, r))

-----------------------------------------------------------------------------
(* Index descriptors.  A list or tuple of descriptors has no name. *)

Index(cls, name) == [cls |-> cls, name |-> name, indexes |-> <<>>]
Composite(cls, indexes) == [cls |-> cls, name |-> "", indexes |-> indexes]
HasName(index) == index.cls \notin {"tuple", "list"}

Min(a, b) == IF a < b THEN a ELSE b

-----------------------------------------------------------------------------
(* interfaces/rest.py: RestQuery, RestInterface *)

RestQuery(params) == [t |-> "RestQuery", params |-> params]

simple_query(index, label) == RestQuery(Dict(<<Entry(index.name, label)>>))

interval_query(index, label) ==
    LET interval == serializable_interval(label)
    IN IF IsRaise(interval)
       THEN interval
       ELSE RestQuery(Dict(<<Entry(index.name, interval)>>))

\* what iterating a value yields; a str here has one character
Iterable(v) == v.t \in {"tuple", "list", "dict", "str"}
Iterate(v) ==
    IF v.t \in {"tuple", "list"} THEN v.items
    ELSE IF v.t = "dict" THEN [i \in 1..Len(v.kv) |-> Str(v.kv[i].k)]
    ELSE <<v>>

RECURSIVE compile_query(_, _)
RECURSIVE multi_loop(_, _, _, _)

\* the raw label merged in place of the child's compiled parameter
multi_loop_rawlabel(indexes, labels, i, params) ==
    IF i > Min(Len(indexes), Len(labels))
    THEN RestQuery(params)
    ELSE LET idx == indexes[i]
             query == compile_query(idx, labels[i])
         IN IF IsRaise(query)
            THEN query
            ELSE IF ~HasName(idx)
            THEN Raise("AttributeError", "name")
            ELSE multi_loop(indexes, labels, i + 1,
                            IF HasKey(query.params, idx.name)
                            THEN DictSet(params, idx.name, labels[i])
                            ELSE params)

\* for idx, label in zip(indexes, labels): ...
multi_loop(indexes, labels, i, params) ==
    IF i > Min(Len(indexes), Len(labels))
    THEN RestQuery(params)
    ELSE LET idx == indexes[i]
             query == compile_query(idx, labels[i])
         IN IF IsRaise(query)
            THEN query
            ELSE IF ~HasName(idx)
            THEN Raise("AttributeError", "name")
            ELSE multi_loop(indexes, labels, i + 1,
                            IF HasKey(query.params, idx.name)
                            THEN DictSet(params, idx.name, Get(query.params, idx.name))
                            ELSE params)

multi_query(indexes, labels) ==
    IF indexes.cls = "MultiIndex"
    THEN IF labels.t = "dict"
         THEN multi_loop(indexes.indexes, Values(labels), 1, EmptyDict)
         ELSE Raise("AttributeError", "values")
    ELSE IF Iterable(labels)
    THEN multi_loop(indexes.indexes, Iterate(labels), 1, EmptyDict)
    ELSE Raise("TypeError", "not iterable")

\* an unregistered descriptor compiled to an empty query instead of raising
compile_query_ignore(index, label) ==
    IF index.cls \in {"Index", "InterpolatingIndex"}
    THEN simple_query(index, label)
    ELSE IF index.cls = "IntervalIndex"
    THEN interval_query(index, label)
    ELSE IF index.cls \in {"list", "tuple", "MultiIndex"}
    THEN multi_query(index, label)
    ELSE RestQuery(EmptyDict)

compile_query(index, label) ==
    IF index.cls \in {"Index", "InterpolatingIndex"}
    THEN simple_query(index, label)
    ELSE IF index.cls = "IntervalIndex"
    THEN interval_query(index, label)
    ELSE IF index.cls \in {"list", "tuple", "MultiIndex"}
    THEN multi_query(index, label)
    ELSE Raise("NotImplementedError", index.cls)

\* the request sent without limit and skip
execute_nopaging(query, limit, skip) ==
    IF HasKey(query.params, "limit") \/ HasKey(query.params, "skip")
    THEN <<>>
    ELSE <<Dict(query.params.kv)>>

\* RestQuery.execute: the keyword arguments of each call it makes on the client.
\* A parameter named limit or skip collides with the keyword of that name and
\* Python raises before the client is called.
execute(query, limit, skip) ==
    IF HasKey(query.params, "limit") \/ HasKey(query.params, "skip")
    THEN <<>>
    ELSE <<Dict(query.params.kv \o <<Entry("limit", limit), Entry("skip", skip)>>)>>

-----------------------------------------------------------------------------
(* rframe.py: the schema a RemoteFrame is bound to.  schema.find, the schema  *)
(* constructor and doc.save belong to the schema and the backend: what they  *)
(* return or raise is an input of the call.                                  *)

IndexNames == <<"a", "b">>     \* self.index.names, in declared order
Columns == <<"x", "y">>        \* self.columns
Fields == IndexNames \o Columns

Range(s) == {s[i] : i \in 1..Len(s)}
InColumns(c) == c.t = "str" /\ c.s \in Range(Columns)

\* d.update(e)
RECURSIVE DictUpdate(_, _, _)
DictUpdate(d, e, i) ==
    IF i > Len(e.kv) THEN d
    ELSE DictUpdate(DictSet(d, e.kv[i].k, e.kv[i].v), e, i + 1)

\* {name: lbl for name, lbl in zip(names, args)}
ZipLabels(names, args) ==
    Dict([i \in 1..Min(Len(names), Len(args)) |-> Entry(names[i], args[i])])

\* the entries of d whose key is in ks, in the order of the sequence names
RECURSIVE Pick(_, _, _, _)
Pick(d, names, i, acc) ==
    IF i > Len(names) THEN Dict(acc)
    ELSE Pick(d, names, i + 1,
              IF HasKey(d, names[i])
              THEN Append(acc, Entry(names[i], Get(d, names[i])))
              ELSE acc)

-----------------------------------------------------------------------------
(* rframe.py: RemoteFrame.sel_records, RemoteFrame.sel *)

\* positional labels overriding the named ones
sel_labels_positional(args, kwargs) ==
    DictUpdate(kwargs, ZipLabels(IndexNames, args), 1)

\* the labels handed to schema.find
sel_labels(args, kwargs) ==
    DictUpdate(ZipLabels(IndexNames, args), kwargs, 1)

\* finds: the label mappings sent to the backend; reply: the documents it returns
sel_records(args, kwargs, reply) ==
    [finds |-> <<sel_labels(args, kwargs)>>, result |-> Lst(reply)]

\* the columns of the frame pandas builds from the documents
DfColumns(docs) == UNION {Keys(docs[i]) : i \in 1..Len(docs)}

\* the rows ordered by the values of the columns idx, smallest first
SortKeyLess(d, e, idx) ==
    \E i \in 1..Len(idx) :
        /\ Get(d, idx[i]).v < Get(e, idx[i]).v
        /\ \A j \in 1..(i - 1) : Get(d, idx[j]).v = Get(e, idx[j]).v
RECURSIVE Insert(_, _, _)
Insert(sorted, d, idx) ==
    IF sorted = <<>> THEN <<d>>
    ELSE IF SortKeyLess(d, Head(sorted), idx)
    THEN <<d>> \o sorted
    ELSE <<Head(sorted)>> \o Insert(Tail(sorted), d, idx)
RECURSIVE SortValues(_, _, _, _)
SortValues(docs, idx, i, acc) ==
    IF i > Len(docs) THEN acc
    ELSE SortValues(docs, idx, i + 1, Insert(acc, docs[i], idx))

DataFrame(index, columns, rows) ==
    [t |-> "DataFrame", index |-> index, columns |-> columns, rows |-> rows]

\* df.sort_values(idx).set_index(idx)
sel(args, kwargs, reply) ==
    LET r == sel_records(args, kwargs, reply)
        docs == r.result.items
        idx == SelectSeq(IndexNames, LAMBDA c : c \in DfColumns(docs))
    IN [finds |-> r.finds,
        result |-> DataFrame(idx, DfColumns(docs) \ Range(idx),
                             SortValues(docs, idx, 1, <<>>))]

\* df[columns]
Project(df, columns) ==
    IF columns.t = "list"
    THEN IF \A i \in 1..Len(columns.items) :
               columns.items[i].t = "str" /\ columns.items[i].s \in df.columns
         THEN DataFrame(df.index, {columns.items[i].s : i \in 1..Len(columns.items)},
                        [i \in 1..Len(df.rows) |->
                            Pick(df.rows[i],
                                 df.index \o [j \in 1..Len(columns.items) |-> columns.items[j].s],
                                 1, <<>>)])
         ELSE Raise("KeyError", "not in index")
    ELSE IF columns.t = "str" /\ columns.s \in df.columns
    THEN [t |-> "Series", index |-> df.index, name |-> columns.s,
          rows |-> [i \in 1..Len(df.rows) |->
                       Pick(df.rows[i], df.index \o <<columns.s>>, 1, <<>>)]]
    ELSE Raise("KeyError", "not in index")

-----------------------------------------------------------------------------
(* rframe.py: RemoteFrame.set, RemoteFrame.concat *)

\* the named labels overriding the positional ones
set_kwargs_named(args, kwargs) ==
    DictUpdate(ZipLabels(IndexNames, args), kwargs, 1)

\* labels = {...zip(self.index.names, args)}; kwargs.update(labels)
set_kwargs(args, kwargs) ==
    DictUpdate(kwargs, ZipLabels(IndexNames, args), 1)

\* self.schema(**kwargs): the document, its fields in the schema's order
Schema(kwargs) == Pick(kwargs, Fields, 1, <<>>)

\* outcome: "ok", or the exception the schema constructor or doc.save raises;
\* saved: the documents handed to the backend and accepted
set(args, kwargs, outcome) ==
    LET doc == Schema(set_kwargs(args, kwargs))
    IN IF outcome = "ValidationError"
       THEN [saved |-> <<>>, result |-> Raise("ValidationError", "schema")]
       ELSE IF outcome = "InsertionError"
       THEN [saved |-> <<>>, result |-> Raise("InsertionError", "save")]
       ELSE [saved |-> <<doc>>, result |-> doc]

Unbound == [t |-> "unbound"]

\* The loop of concat.  Its first statement reads the local doc before any
\* assignment to it and calls isinstance with three arguments: the read raises
\* UnboundLocalError (an assigned doc would raise TypeError), outside the try
\* block, so nothing below it in the loop body runs.
concat_loop(records, i, doc, succeeded, failed, errors) ==
    IF i > Len(records)
    THEN [saved |-> succeeded,
          result |-> Tup(<<Lst(succeeded), Lst(failed), Lst(errors)>>)]
    ELSE IF doc = Unbound
    THEN [saved |-> succeeded, result |-> Raise("UnboundLocalError", "doc")]
    ELSE [saved |-> succeeded, result |-> Raise("TypeError", "isinstance")]

concat(records) == concat_loop(records, 1, Unbound, <<>>, <<>>, <<>>)

-----------------------------------------------------------------------------
(* rframe.py: LocIndexer.__getitem__, AtIndexer.__getitem__ *)

AsTuple(index) == IF index.t = "tuple" THEN index ELSE Tup(<<index>>)
AsList(columns) == IF columns.t = "list" THEN columns ELSE Lst(<<columns>>)
AllInColumns(columns) == \A i \in 1..Len(columns.items) : InColumns(columns.items[i])

\* the second element of a pair always taken as the column selection
loc_resolve_nocheck(index) ==
    IF index.t = "tuple" /\ Len(index.items) = 2
    THEN [index |-> AsTuple(index.items[1]), columns |-> AsList(index.items[2])]
    ELSE IF index.t = "tuple" /\ Len(index.items) = Len(Columns) + 1
    THEN [index |-> Tup(SubSeq(index.items, 1, Len(index.items) - 1)),
          columns |-> index.items[Len(index.items)]]
    ELSE [index |-> AsTuple(index), columns |-> None]

\* the index tuple and the column selection (None: no projection) a subscript
\* resolves to
loc_resolve(index) ==
    IF index.t = "tuple" /\ Len(index.items) = 2
    THEN LET columns == AsList(index.items[2])
         IN IF ~AllInColumns(columns)
            THEN [index |-> Tup(AsTuple(index.items[1]).items \o columns.items),
                  columns |-> None]
            ELSE [index |-> AsTuple(index.items[1]), columns |-> columns]
    ELSE IF index.t = "tuple" /\ Len(index.items) = Len(Columns) + 1
    THEN [index |-> Tup(SubSeq(index.items, 1, Len(index.items) - 1)),
          columns |-> index.items[Len(index.items)]]
    ELSE [index |-> AsTuple(index), columns |-> None]

LocIndexer_getitem(key, reply) ==
    LET r == loc_resolve(key)
        df == sel(r.index.items, EmptyDict, reply)
    IN [selargs |-> r.index.items, columns |-> r.columns, finds |-> df.finds,
        result |-> IF r.columns # None THEN Project(df.result, r.columns)
                   ELSE df.result]

\* RemoteSeries.sel_value
sel_value(column, args, reply) ==
    LET r == sel_records(args, EmptyDict, reply)
        docs == r.result.items
    IN [finds |-> r.finds,
        result |-> IF \E i \in 1..Len(docs) : ~HasKey(docs[i], column)
                   THEN Raise("KeyError", column)
                   ELSE IF docs # <<>>
                   THEN Get(docs[1], column)
                   ELSE Raise("KeyError", "Selection returned no values.")]

AtIndexer_getitem(key, reply) ==
    IF ~(key.t = "tuple" /\ Len(key.items) = 2)
    THEN [finds |-> <<>>, result |-> Raise("KeyError", "ill-defined location")]
    ELSE LET index == AsTuple(key.items[1])
             column == key.items[2]
         IN IF ~InColumns(column)
            THEN [finds |-> <<>>, result |-> Raise("KeyError", "column not found")]
            ELSE IF \E i \in 1..Len(index.items) :
                       index.items[i].t \in {"slice", "list", "None"}
            THEN [finds |-> <<>>, result |-> Raise("KeyError", "not unique index")]
            \* len(index) < len(names): the KeyError is built and dropped
            ELSE sel_value(column.s, index.items, reply)

-----------------------------------------------------------------------------
(* Inputs of the REST interface *)

FieldNames == <<"a", "b", "c", "d">>

I0 == IntV(0)
I1 == IntV(1)
Pair01 == Tup(<<I0, I1>>)

LeafClasses == {"Index", "InterpolatingIndex", "IntervalIndex", "UnsupportedIndex"}
NestedTuple == Composite("tuple", <<Index("Index", "z")>>)

\* the children of a composite: the i-th child is named FieldNames[i]
ChildrenAt(k) ==
    {ch \in [1..k -> {Index(c, FieldNames[i]) : c \in LeafClasses, i \in 1..k}
                        \cup {NestedTuple}] :
        \A i \in 1..k : ch[i] = NestedTuple \/ ch[i].name = FieldNames[i]}
Children == UNION {ChildrenAt(k) : k \in 0..MaxLen}

\* two labels that compile differently for every kind of child
ChildLabels == {I0, Pair01}
SeqLabels == {Tup(s) : s \in SeqsUpTo(ChildLabels, MaxLen)}

\* keyed labels: at most MaxLen distinct keys, in any order
KeyedLabels ==
    {Dict(kv) : kv \in
        {s \in SeqsUpTo({Entry(FieldNames[i], v) : i \in 1..MaxLen, v \in ChildLabels}, MaxLen) :
            \A i, j \in 1..Len(s) : i # j => s[i].k # s[j].k}}

LeafLabels == {I0, I1, None, Pair01, IntervalDict(I0, I1), Lst(<<Pair01, I1>>),
               Tup(<<I0, I1, I1>>)}

Pagings == {<<None, None>>, <<I1, I0>>}
Replies == {<<>>, <<I0>>}

IntervalAtoms ==
    {I0, Pair01, IntervalDict(I0, I1),
     Dict(<<Entry("right", I1), Entry("closed", I0), Entry("left", I0)>>),
     Slice(I0, I1), Interval(I0, I1)}
NotIntervals == {Tup(<<I0, I1, I1>>), Dict(<<Entry("left", I0)>>)}
IntervalLike == IntervalAtoms \cup {Lst(s) : s \in SeqsUpTo(IntervalAtoms, MaxLen)}
IntervalInputs ==
    IntervalLike \cup NotIntervals
    \cup {Lst(s) : s \in SeqsUpTo(IntervalAtoms \cup NotIntervals, MaxLen)}

-----------------------------------------------------------------------------
(* State machine *)

NoOp == [name |-> "none"]

Init ==
    /\ db = <<>>
    /\ clientCalls = 0
    /\ op = NoOp

\* the caller takes the result; nothing of the call is retained
Return ==
    /\ op # NoOp
    /\ op' = NoOp
    /\ UNCHANGED <<db, clientCalls>>

SerializableInterval ==
    /\ op = NoOp
    /\ \E x \in IntervalInputs :
          op' = [name |-> "serializable_interval", arg |-> x, reapplied |-> FALSE,
                 result |-> serializable_interval(x)]
    /\ UNCHANGED <<db, clientCalls>>

\* the function applied to what it has just returned
SerializableIntervalAgain ==
    /\ op.name = "serializable_interval"
    /\ ~IsRaise(op.result)
    /\ op' = [name |-> "serializable_interval", arg |-> op.result, reapplied |-> TRUE,
              result |-> serializable_interval(op.result)]
    /\ UNCHANGED <<db, clientCalls>>

Compiled(index, label) ==
    [name |-> "compile_query", index |-> index, label |-> label,
     result |-> compile_query(index, label)]

\* a single descriptor with its label; a list, tuple or MultiIndex of children
\* with a sequence of labels, a keyed label, or a label that is no collection
CompileQuery ==
    /\ op = NoOp
    /\ \/ \E c \in LeafClasses, l \in LeafLabels :
             op' = Compiled(Index(c, "a"), l)
       \/ \E c \in {"tuple", "list", "MultiIndex"}, ch \in Children,
             l \in SeqLabels \cup KeyedLabels \cup {I0} :
             op' = Compiled(Composite(c, ch), l)
    /\ UNCHANGED <<db, clientCalls>>

\* execute on the query just compiled, or once more on the query just executed
Execute ==
    /\ op.name \in {"compile_query", "execute"}
    /\ clientCalls < MaxCalls
    /\ LET query == IF op.name = "execute" THEN op.query ELSE op.result
           runs == IF op.name = "execute" THEN op.runs ELSE 0
       IN /\ query.t = "RestQuery"
          /\ \E pg \in Pagings, reply \in Replies :
                LET requests == execute(query, pg[1], pg[2])
                IN /\ op' = [name |-> "execute", query |-> query, runs |-> runs + 1,
                             limit |-> pg[1], skip |-> pg[2], requests |-> requests,
                             result |-> IF requests = <<>>
                                        THEN Raise("TypeError", "multiple values")
                                        ELSE Tup(reply)]
                   /\ clientCalls' = clientCalls + Len(requests)
    /\ UNCHANGED db

-----------------------------------------------------------------------------
(* Inputs and actions of the facade *)

Scalars == {I0, I1}

\* keyword arguments: a value for some of the index fields
IndexKwargs ==
    {Pick(Dict(<<Entry("a", f[1]), Entry("b", f[2])>>),
          SelectSeq(IndexNames, LAMBDA n : f[IF n = "a" THEN 1 ELSE 2] # None), 1, <<>>) :
        f \in [1..2 -> Scalars \cup {None}]}

\* keyword arguments of set: index fields and the column x
SetKwargs ==
    {DictUpdate(kw, x, 1) : kw \in IndexKwargs,
                            x \in {EmptyDict, Dict(<<Entry("x", I1)>>)}}

\* positional labels: up to one more than there are index fields
PosLabels == SeqsUpTo(Scalars, Len(IndexNames)) \cup {<<I0, I1, I1>>}

Doc(a, b, x) ==
    Dict(<<Entry("a", a), Entry("b", b), Entry("x", x), Entry("y", I0)>>)
\* what the backend may answer to a find
FindReplies == {<<>>, <<Doc(I1, I0, I1)>>, <<Doc(I1, I0, I1), Doc(I0, I1, I0)>>}

SaveOutcomes == {"ok", "ValidationError", "InsertionError"}

\* the records of a batch: dicts of fields
Records == {Doc(a, I0, I0) : a \in Scalars}
Batches == SeqsUpTo(Records, MaxBatch)

KeyAtoms ==
    {I0, I1, None, Str("x"), Str("q"),
     Lst(<<Str("x"), Str("y")>>), Lst(<<Str("x"), I1>>), Slice(I0, I1)}
LongKeyAtoms == {I0, Str("x"), Lst(<<Str("x"), Str("y")>>)}
SubscriptKeys ==
    KeyAtoms
    \cup {Tup(s) : s \in SeqsUpTo(KeyAtoms \cup {Pair01}, 2)}
    \cup {Tup(s) : s \in UNION {[1..k -> LongKeyAtoms] : k \in 3..MaxKey}}

Set ==
    /\ op = NoOp
    /\ Len(db) < MaxDocs
    /\ \E args \in PosLabels, kwargs \in SetKwargs, outcome \in SaveOutcomes :
          LET r == set(args, kwargs, outcome)
          IN /\ op' = [name |-> "set", args |-> args, kwargs |-> kwargs,
                       saved |-> r.saved, result |-> r.result]
             /\ db' = db \o r.saved
    /\ UNCHANGED clientCalls

\* failing: the positions of the records the backend would reject
Concat ==
    /\ op = NoOp
    /\ \E records \in Batches :
          \E failing \in SUBSET (1..Len(records)) :
             LET r == concat(records)
             IN /\ Len(db) + Len(r.saved) <= MaxDocs
                /\ op' = [name |-> "concat", records |-> records, failing |-> failing,
                          saved |-> r.saved, result |-> r.result]
                /\ db' = db \o r.saved
    /\ UNCHANGED clientCalls

SelRecords ==
    /\ op = NoOp
    /\ \E args \in PosLabels, kwargs \in IndexKwargs, reply \in FindReplies :
          LET r == sel_records(args, kwargs, reply)
          IN op' = [name |-> "sel_records", args |-> args, kwargs |-> kwargs,
                    finds |-> r.finds, result |-> r.result]
    /\ UNCHANGED <<db, clientCalls>>

Sel ==
    /\ op = NoOp
    /\ \E args \in PosLabels, kwargs \in IndexKwargs, reply \in FindReplies :
          LET r == sel(args, kwargs, reply)
          IN op' = [name |-> "sel", args |-> args, kwargs |-> kwargs,
                    finds |-> r.finds, result |-> r.result]
    /\ UNCHANGED <<db, clientCalls>>

LocGetitem ==
    /\ op = NoOp
    /\ \E key \in SubscriptKeys, reply \in FindReplies :
          LET r == LocIndexer_getitem(key, reply)
          IN op' = [name |-> "loc", key |-> key, selargs |-> r.selargs,
                    columns |-> r.columns, finds |-> r.finds, result |-> r.result]
    /\ UNCHANGED <<db, clientCalls>>

AtGetitem ==
    /\ op = NoOp
    /\ \E key \in SubscriptKeys, reply \in FindReplies :
          LET r == AtIndexer_getitem(key, reply)
          IN op' = [name |-> "at", key |-> key, finds |-> r.finds, result |-> r.result]
    /\ UNCHANGED <<db, clientCalls>>

NextWrite ==
    \/ Set
    \/ Concat
    \/ Return

NextRead ==
    \/ SelRecords
    \/ Sel
    \/ LocGetitem
    \/ AtGetitem
    \/ Return

SpecWrite == Init /\ [][NextWrite]_vars
SpecRead == Init /\ [][NextRead]_vars

NextRest ==
    \/ SerializableInterval
    \/ SerializableIntervalAgain
    \/ CompileQuery
    \/ Execute
    \/ Return

SpecRest == Init /\ [][NextRest]_vars

-----------------------------------------------------------------------------
(* Properties of the REST interface, stated of SpecRest *)

IsComposite(index) == index.cls \in {"list", "tuple", "MultiIndex"}
SupportedLeaf(index) == index.cls \in {"Index", "InterpolatingIndex", "IntervalIndex"}
ChildrenSupported(index) == \A i \in 1..Len(index.indexes) : SupportedLeaf(index.indexes[i])

\* the parameter a single child owes to its label
Expected(child, label) ==
    IF child.cls = "IntervalIndex"
    THEN IF label.t = "tuple"
         THEN IntervalDict(label.items[1], label.items[2])
         ELSE IntervalDict(label, label)
    ELSE label

\* each child's label is given by position: a sequence of labels for a list or
\* tuple of descriptors, a mapping that lists the children in declared order
\* for a MultiIndex
Positional(index, label) ==
    \/ index.cls \in {"list", "tuple"} /\ label.t \in {"tuple", "list"}
    \/ /\ index.cls = "MultiIndex"
       /\ label.t = "dict"
       /\ \A i \in 1..Min(Len(label.kv), Len(index.indexes)) :
             label.kv[i].k = index.indexes[i].name
LabelAt(label, i) == IF label.t = "dict" THEN label.kv[i].v ELSE label.items[i]
NumLabels(label) == IF label.t = "dict" THEN Len(label.kv) ELSE Len(label.items)

C6Case ==
    /\ op.name = "compile_query"
    /\ IsComposite(op.index)
    /\ ChildrenSupported(op.index)
    /\ Positional(op.index, op.label)

\* C6: a composite compiled with a label per child yields the union of the
\* children's own parameters: every labelled child's name maps to what that
\* child alone compiles to (the label, or {left, right} for an interval
\* child), and no other key is present.
C6_UnionOfChildren ==
    C6Case =>
        LET ch == op.index.indexes
            n == Min(Len(ch), NumLabels(op.label))
        IN /\ op.result.t = "RestQuery"
           /\ Keys(op.result.params) = {ch[i].name : i \in 1..n}
           /\ \A i \in 1..n :
                 LET alone == compile_query(ch[i], LabelAt(op.label, i))
                 IN /\ Get(op.result.params, ch[i].name) = Get(alone.params, ch[i].name)
                    /\ Get(op.result.params, ch[i].name)
                          = Expected(ch[i], LabelAt(op.label, i))

\* children a (value) and b (interval) with labels (0, (0, 1))
C6_Witness ==
    /\ C6Case
    /\ op.index.indexes = <<Index("Index", "a"), Index("IntervalIndex", "b")>>
    /\ op.label = Tup(<<I0, Pair01>>)
    /\ op.result = RestQuery(Dict(<<Entry("a", I0), Entry("b", IntervalDict(I0, I1))>>))

\* C7: a MultiIndex compiled with a keyed label gives every child the
\* component stored under that child's name, whatever the order of the keys
\* and whichever children have an entry.
C7_KeyedLabelByName ==
    (/\ op.name = "compile_query"
     /\ op.index.cls = "MultiIndex"
     /\ ChildrenSupported(op.index)
     /\ op.label.t = "dict")
    => /\ op.result.t = "RestQuery"
       /\ \A i \in 1..Len(op.index.indexes) :
             LET child == op.index.indexes[i]
             IN HasKey(op.label, child.name) =>
                   /\ HasKey(op.result.params, child.name)
                   /\ Get(op.result.params, child.name)
                         = Expected(child, Get(op.label, child.name))

\* C8: serializable_interval applied to its own output returns that output.
C8_Idempotent ==
    (op.name = "serializable_interval" /\ op.reapplied) => op.result = op.arg

C8_Witness ==
    /\ op.name = "serializable_interval"
    /\ op.reapplied
    /\ op.arg = Lst(<<IntervalDict(I0, I1), IntervalDict(I0, I0)>>)
    /\ op.result = op.arg

HasUnsupportedChild(index) ==
    \E i \in 1..Len(index.indexes) : index.indexes[i].cls = "UnsupportedIndex"
FirstUnsupported(index) ==
    CHOOSE i \in 1..Len(index.indexes) :
        /\ index.indexes[i].cls = "UnsupportedIndex"
        /\ \A j \in 1..(i - 1) : index.indexes[j].cls # "UnsupportedIndex"
\* how many children the loop pairs with a label
NumPaired(index, label) ==
    IF index.cls = "MultiIndex"
    THEN IF label.t = "dict" THEN Min(Len(index.indexes), Len(label.kv)) ELSE 0
    ELSE IF Iterable(label) THEN Min(Len(index.indexes), Len(Iterate(label))) ELSE 0

Unsupported(cls) == Raise("NotImplementedError", cls)

\* C9 as stated: an unsupported descriptor, alone or as any child of a
\* composite, makes the compilation fail with the error naming its type.
\* (Stated for the composites whose other children compile and whose labels
\* are of the form multi_query iterates, at least one label being given.)
C9_AnyUnsupportedChildFails ==
    (/\ op.name = "compile_query"
     /\ \/ op.index.cls = "UnsupportedIndex"
        \/ /\ IsComposite(op.index)
           /\ HasUnsupportedChild(op.index)
           /\ \A i \in 1..(FirstUnsupported(op.index) - 1) :
                 SupportedLeaf(op.index.indexes[i])
           /\ NumPaired(op.index, op.label) >= 1)
    => op.result = Unsupported("UnsupportedIndex")

\* C9, amended: an unsupported descriptor fails with the error naming its
\* type; as a child of a composite it fails the whole compilation whenever
\* the loop pairs it with a label (with that same error when the children
\* before it compile), and no parameters are returned.
C9_UnsupportedFails ==
    op.name = "compile_query" =>
        /\ op.index.cls = "UnsupportedIndex"
              => op.result = Unsupported(op.index.cls)
        /\ (/\ IsComposite(op.index)
            /\ HasUnsupportedChild(op.index)
            /\ FirstUnsupported(op.index) <= NumPaired(op.index, op.label))
           => /\ IsRaise(op.result)
              /\ (\A i \in 1..(FirstUnsupported(op.index) - 1) :
                     SupportedLeaf(op.index.indexes[i]))
                 => op.result = Unsupported("UnsupportedIndex")

C9_Witness ==
    /\ op.name = "compile_query"
    /\ op.index = Composite("MultiIndex",
                            <<Index("Index", "a"), Index("UnsupportedIndex", "b")>>)
    /\ op.label = Dict(<<Entry("a", I0), Entry("b", Pair01)>>)
    /\ op.result = Unsupported("UnsupportedIndex")

\* C10: compiling calls the client zero times; each execute calls it exactly
\* once, with the compiled parameters plus limit and skip, and leaves the
\* query as it was, so that executing it again sends the same parameters.
C10_CompilePureExecuteOnce ==
    [][/\ op'.name = "compile_query" => clientCalls' = clientCalls
       /\ op'.name = "execute" =>
             LET before == IF op.name = "execute" THEN op.query ELSE op.result
             IN /\ clientCalls' = clientCalls + 1
                /\ Len(op'.requests) = 1
                /\ Keys(op'.requests[1]) = Keys(before.params) \cup {"limit", "skip"}
                /\ \A k \in Keys(before.params) :
                      Get(op'.requests[1], k) = Get(before.params, k)
                /\ Get(op'.requests[1], "limit") = op'.limit
                /\ Get(op'.requests[1], "skip") = op'.skip
                /\ op'.query = before]_vars

\* a composite query executed for the second time
C10_Witness ==
    /\ op.name = "execute"
    /\ op.runs = 2
    /\ clientCalls = 2
    /\ Len(op.query.params.kv) = 2
    /\ op.limit = I1

-----------------------------------------------------------------------------
(* Properties of the facade: C1 and C2 of SpecWrite; C3, C4 and C5 of SpecRead *)

RECURSIVE Keep(_, _, _, _)
\* the elements of s at the positions in P, in order
Keep(s, P, i, acc) ==
    IF i > Len(s) THEN acc
    ELSE Keep(s, P, i + 1, IF i \in P THEN Append(acc, s[i]) ELSE acc)

\* C1: concat attempts every record: it returns (succeeded, failed, errors),
\* succeeded and failed partitioning the batch in its order and errors
\* aligned with failed, whichever records fail.
C1_ConcatPartitions ==
    op.name = "concat" =>
        /\ op.result.t = "tuple"
        /\ op.result.items[1].items
              = Keep(op.records, (1..Len(op.records)) \ op.failing, 1, <<>>)
        /\ op.result.items[2].items = Keep(op.records, op.failing, 1, <<>>)
        /\ Len(op.result.items[3].items) = Len(op.result.items[2].items)

\* the index fields given by position
Bound(args) == {IndexNames[i] : i \in 1..Min(Len(IndexNames), Len(args))}
PositionOf(name) == CHOOSE i \in 1..Len(IndexNames) : IndexNames[i] = name

\* C2 as stated: in set, an index field given both by position and by name
\* is persisted with the named value.
C2_NamedWins ==
    (op.name = "set" /\ ~IsRaise(op.result)) =>
        \A n \in Bound(op.args) \cap Keys(op.kwargs) :
            Get(db[Len(db)], n) = Get(op.kwargs, n)

\* C2, amended: in set, the positional labels are primary: the persisted
\* record holds the i-th positional label under the i-th index field, also
\* when that field is given by name, and a named value only for the fields
\* not given by position.
C2_PositionalWins ==
    (op.name = "set" /\ ~IsRaise(op.result)) =>
        /\ db # <<>>
        /\ op.saved = <<db[Len(db)]>>
        /\ Keys(db[Len(db)]) = Bound(op.args) \cup Keys(op.kwargs)
        /\ \A n \in Bound(op.args) :
              Get(db[Len(db)], n) = op.args[PositionOf(n)]
        /\ \A n \in Keys(op.kwargs) \ Bound(op.args) :
              Get(db[Len(db)], n) = Get(op.kwargs, n)

\* set(0, a=1, x=1): field a is given both ways
C2_Witness ==
    /\ op.name = "set"
    /\ op.args = <<I0>>
    /\ op.kwargs = Dict(<<Entry("a", I1), Entry("x", I1)>>)
    /\ db = <<Dict(<<Entry("a", I0), Entry("x", I1)>>)>>

IllDefinedLocation ==
    {Raise("KeyError", "ill-defined location"), Raise("KeyError", "not unique index"),
     Raise("KeyError", "under defined index")}

\* C3: at with a known column fails with IllDefinedLocation, without looking
\* anything up, whenever the index tuple has fewer components than there are
\* index fields or a component is a slice, a list or None.
C3_AtRejectsUnderSpecified ==
    (/\ op.name = "at"
     /\ op.key.t = "tuple"
     /\ Len(op.key.items) = 2
     /\ InColumns(op.key.items[2])
     /\ LET index == AsTuple(op.key.items[1]).items
        IN \/ Len(index) < Len(IndexNames)
           \/ \E i \in 1..Len(index) : index[i].t \in {"slice", "list", "None"})
    => /\ op.result \in IllDefinedLocation
       /\ op.finds = <<>>

Last(s) == s[Len(s)]
\* a column name, or a list of column names
IsColumnSelection(v) == InColumns(v) \/ (v.t = "list" /\ AllInColumns(v))

\* C4 as stated: for a subscript tuple of any length, the last element is the
\* column selection only if it is a column name or a list of column names;
\* otherwise it is an index component and no projection is applied.
C4_AnyLengthMembership ==
    (op.name = "loc" /\ op.key.t = "tuple" /\ Len(op.key.items) >= 1) =>
        /\ op.columns # None => IsColumnSelection(Last(op.key.items))
        /\ ~IsColumnSelection(Last(op.key.items)) =>
              /\ op.columns = None
              /\ Last(op.selargs) \in {Last(op.key.items)}
                                       \cup Range(AsList(Last(op.key.items)).items)

\* C4, amended: the membership test is applied to subscript pairs only.  In a
\* pair the second element is the column selection if it is a column name or
\* a list of column names; otherwise it (each element of it, for a list) is
\* appended to the index labels passed to sel and no projection is applied.
\* A longer tuple of length number_of_columns + 1 gives its last element as
\* the column selection untested; any other subscript is all index labels.
C4_PairMembership ==
    op.name = "loc" =>
        LET items == AsTuple(op.key).items
            n == Len(items)
        IN /\ (op.key.t = "tuple" /\ n = 2) =>
                 LET first == AsTuple(items[1]).items
                     second == AsList(items[2])
                 IN IF IsColumnSelection(items[2])
                    THEN op.columns = second /\ op.selargs = first
                    ELSE op.columns = None /\ op.selargs = first \o second.items
           /\ (op.key.t = "tuple" /\ n # 2 /\ n = Len(Columns) + 1) =>
                 op.columns = items[n] /\ op.selargs = SubSeq(items, 1, n - 1)
           /\ (op.key.t # "tuple" \/ n \notin {2, Len(Columns) + 1}) =>
                 op.columns = None /\ op.selargs = items
           /\ op.finds[1] = ZipLabels(IndexNames, op.selargs)

\* loc[0, "q"]: q is no column, so it becomes the second index label
C4_Witness ==
    /\ op.name = "loc"
    /\ op.key = Tup(<<I0, Str("q")>>)
    /\ op.columns = None
    /\ op.finds = <<Dict(<<Entry("a", I0), Entry("b", Str("q"))>>)>>

\* C5: the labels sent to the backend by sel_records and sel bind the i-th
\* positional label to the i-th index field; a named label replaces the
\* positional one of its field and adds the fields not given by position;
\* an index field with no label is absent.
C5_LabelBinding ==
    op.name \in {"sel_records", "sel"} =>
        /\ Len(op.finds) = 1
        /\ Keys(op.finds[1]) = Bound(op.args) \cup Keys(op.kwargs)
        /\ \A n \in Keys(op.kwargs) : Get(op.finds[1], n) = Get(op.kwargs, n)
        /\ \A n \in Bound(op.args) \ Keys(op.kwargs) :
              Get(op.finds[1], n) = op.args[PositionOf(n)]

\* sel(0, a=1): the named label replaces the positional one, b is unconstrained
C5_Witness ==
    /\ op.name = "sel"
    /\ op.args = <<I0>>
    /\ op.kwargs = Dict(<<Entry("a", I1)>>)
    /\ op.finds = <<Dict(<<Entry("a", I1)>>)>>

=============================================================================
